---- MODULE Spec2Model ----
(***************************************************************************)
(* Model of the module initialiser of the poppler Python binding,          *)
(* src/poppler-python/popplermodule.c, function initpoppler.               *)
(*                                                                         *)
(* initpoppler is straight-line code: it makes seven calls into the        *)
(* Python / pycairo / pygobject runtime and then tests PyErr_Occurred().   *)
(* Each call is one action; pc is the position in the function.  Whether a *)
(* call succeeds is decided by the runtime, so every action draws its      *)
(* outcome with \E.  Two library macros used by the function matter:       *)
(*   Pycairo_IMPORT   (pycairo.h)   expands to the assignment              *)
(*       Pycairo_CAPI = PyCObject_Import("cairo", "CAPI")                  *)
(*     which yields NULL with an ImportError pending on failure;           *)
(*   init_pygobject() (pygobject.h) expands to a block that, on failure,   *)
(*     leaves a Python error pending and executes `return;` in the         *)
(*     function that uses it.                                              *)
(* Passing a NULL module to PyModule_GetDict / PyModule_AddObject, or a    *)
(* NULL dictionary to the class registration, dereferences a null pointer: *)
(* the outcome is a nondeterministic choice between the process crashing   *)
(* and the call coming back with an error pending.                         *)
(***************************************************************************)
EXTENDS Naturals, Sequences, FiniteSets

\* Largest component of the version numbers config.h may define.
MaxVer == 1

VARIABLES
    pc,                        \* position in initpoppler
    Pycairo_CAPI,              \* the process-wide global of line 30
    m,                         \* local PyObject *m
    d,                         \* local PyObject *d
    err,                       \* a Python error is pending (PyErr_Occurred)
    poppler,                   \* the module object on the interpreter heap
    PYPOPPLER_MAJOR_VERSION,   \* config.h
    PYPOPPLER_MINOR_VERSION,   \* config.h
    PYPOPPLER_MICRO_VERSION,   \* config.h
    log,                       \* history: the steps invoked, in order
    failed,                    \* history: the steps whose call failed
    capiWrites                 \* history: assignments made to Pycairo_CAPI

vars == <<pc, Pycairo_CAPI, m, d, err, poppler, PYPOPPLER_MAJOR_VERSION,
          PYPOPPLER_MINOR_VERSION, PYPOPPLER_MICRO_VERSION, log, failed,
          capiWrites>>

versions == <<PYPOPPLER_MAJOR_VERSION, PYPOPPLER_MINOR_VERSION,
              PYPOPPLER_MICRO_VERSION>>

NULL == "NULL"

\* The order of the statements of initpoppler.
FixedOrder == <<"cairo", "pygobject", "initmodule", "getdict", "classes",
                "constants", "version", "errcheck">>

Terminal == {"returned", "fatal", "crashed"}

\* What a null-pointer dereference inside the runtime can produce.
UBOutcomes == {"crash", "continue"}

\* No module object exists before Py_InitModule.
NoModule ==
    [exists |-> FALSE, name |-> "", methods |-> "", classes |-> 0,
     constants |-> <<>>, attrs |-> <<>>]

\* Py_InitModule(name, methods): a fresh module with that name and table.
Py_InitModule(name, methods) ==
    [exists |-> TRUE, name |-> name, methods |-> methods, classes |-> 0,
     constants |-> <<>>, attrs |-> <<>>]

\* PyModule_GetDict(m): the dictionary of module m.
PyModule_GetDict(mod) == "dict_of_" \o mod

\* py_poppler_register_classes(d): one registration of the classes in d.
py_poppler_register_classes(mod) ==
    [mod EXCEPT !.classes = @ + 1]

\* py_poppler_add_constants(module, strip_prefix): one export of the constants.
py_poppler_add_constants(mod, strip_prefix) ==
    [mod EXCEPT !.constants = Append(@, strip_prefix)]

\* Py_BuildValue(format, ...): one tuple item per format unit, in order.
Py_BuildValue(format, a, b, c) ==
    [i \in 1..Len(format) |-> <<a, b, c>>[i]]

\* PyModule_AddObject(module, name, value): adds value under name.
PyModule_AddObject(mod, name, value) ==
    [mod EXCEPT !.attrs = Append(@, [name |-> name, value |-> value])]

Init ==
    /\ pc = "cairo"
    /\ Pycairo_CAPI = NULL
    /\ m = NULL
    /\ d = NULL
    /\ err = FALSE
    /\ poppler = NoModule
    /\ PYPOPPLER_MAJOR_VERSION \in 0..MaxVer
    /\ PYPOPPLER_MINOR_VERSION \in 0..MaxVer
    /\ PYPOPPLER_MICRO_VERSION \in 0..MaxVer
    /\ log = <<>>
    /\ failed = {}
    /\ capiWrites = 0

\* Variant: init_pygobject () is left out, the cairo import is followed
\* directly by the module creation.
ImportCairo_SkipPygobject ==
    /\ pc = "cairo"
    /\ \E ok \in BOOLEAN :
          /\ Pycairo_CAPI' = IF ok THEN "CAPI" ELSE NULL
          /\ err' = (err \/ ~ok)
          /\ failed' = IF ok THEN failed ELSE failed \cup {"cairo"}
    /\ capiWrites' = capiWrites + 1
    /\ log' = Append(log, "cairo")
    /\ pc' = "initmodule"
    /\ UNCHANGED <<m, d, poppler, versions>>

\* Line 42: Pycairo_IMPORT.
ImportCairo ==
    /\ pc = "cairo"
    /\ \E ok \in BOOLEAN :
          /\ Pycairo_CAPI' = IF ok THEN "CAPI" ELSE NULL
          /\ err' = (err \/ ~ok)
          /\ failed' = IF ok THEN failed ELSE failed \cup {"cairo"}
    /\ capiWrites' = capiWrites + 1
    /\ log' = Append(log, "cairo")
    /\ pc' = "pygobject"
    /\ UNCHANGED <<m, d, poppler, versions>>

\* Line 44: init_pygobject (); on failure the macro returns from initpoppler.
InitPygobject ==
    /\ pc = "pygobject"
    /\ \E ok \in BOOLEAN :
          /\ err' = (err \/ ~ok)
          /\ failed' = IF ok THEN failed ELSE failed \cup {"pygobject"}
          /\ pc' = IF ok THEN "initmodule" ELSE "returned"
    /\ log' = Append(log, "pygobject")
    /\ UNCHANGED <<Pycairo_CAPI, m, d, poppler, versions, capiWrites>>

\* Variant: `if (m == NULL) return;` after Py_InitModule.
InitModule_EarlyReturn ==
    /\ pc = "initmodule"
    /\ \E ok \in BOOLEAN :
          /\ m' = IF ok THEN "poppler" ELSE NULL
          /\ poppler' = IF ok THEN Py_InitModule("poppler", "py_poppler_functions")
                              ELSE poppler
          /\ err' = (err \/ ~ok)
          /\ failed' = IF ok THEN failed ELSE failed \cup {"initmodule"}
          /\ pc' = IF ok THEN "getdict" ELSE "returned"
    /\ log' = Append(log, "initmodule")
    /\ UNCHANGED <<Pycairo_CAPI, d, versions, capiWrites>>

\* Line 46: m = Py_InitModule ("poppler", py_poppler_functions).
InitModule ==
    /\ pc = "initmodule"
    /\ \E ok \in BOOLEAN :
          /\ m' = IF ok THEN "poppler" ELSE NULL
          /\ poppler' = IF ok THEN Py_InitModule("poppler", "py_poppler_functions")
                              ELSE poppler
          /\ err' = (err \/ ~ok)
          /\ failed' = IF ok THEN failed ELSE failed \cup {"initmodule"}
    /\ log' = Append(log, "initmodule")
    /\ pc' = "getdict"
    /\ UNCHANGED <<Pycairo_CAPI, d, versions, capiWrites>>

\* Line 47: d = PyModule_GetDict (m).  On a NULL m the call dereferences it.
GetDict ==
    /\ pc = "getdict"
    /\ log' = Append(log, "getdict")
    /\ IF m # NULL
          THEN /\ d' = PyModule_GetDict(m)
               /\ pc' = "classes"
               /\ UNCHANGED <<err, failed>>
          ELSE \E o \in UBOutcomes :
                  /\ d' = NULL
                  /\ err' = TRUE
                  /\ failed' = failed \cup {"getdict"}
                  /\ pc' = IF o = "crash" THEN "crashed" ELSE "classes"
    /\ UNCHANGED <<Pycairo_CAPI, m, poppler, versions, capiWrites>>

\* Variant: the class registration is skipped when an error is already
\* pending.
RegisterClasses_SkipOnError ==
    /\ pc = "classes"
    /\ IF err
          THEN /\ pc' = "constants"
               /\ UNCHANGED <<log, poppler, err, failed>>
          ELSE /\ log' = Append(log, "classes")
               /\ \E ok \in BOOLEAN :
                     /\ poppler' = IF ok THEN py_poppler_register_classes(poppler)
                                         ELSE poppler
                     /\ err' = (err \/ ~ok)
                     /\ failed' = IF ok THEN failed ELSE failed \cup {"classes"}
               /\ pc' = "constants"
    /\ UNCHANGED <<Pycairo_CAPI, m, d, versions, capiWrites>>

\* Line 49: py_poppler_register_classes (d).
RegisterClasses ==
    /\ pc = "classes"
    /\ log' = Append(log, "classes")
    /\ IF d # NULL
          THEN /\ \E ok \in BOOLEAN :
                     /\ poppler' = IF ok THEN py_poppler_register_classes(poppler)
                                         ELSE poppler
                     /\ err' = (err \/ ~ok)
                     /\ failed' = IF ok THEN failed ELSE failed \cup {"classes"}
               /\ pc' = "constants"
          ELSE \E o \in UBOutcomes :
                  /\ err' = TRUE
                  /\ failed' = failed \cup {"classes"}
                  /\ pc' = IF o = "crash" THEN "crashed" ELSE "constants"
                  /\ UNCHANGED poppler
    /\ UNCHANGED <<Pycairo_CAPI, m, d, versions, capiWrites>>

\* Variant: the constants are exported with the prefix "POPPLER" (no
\* underscore).
AddConstants_WrongPrefix ==
    /\ pc = "constants"
    /\ log' = Append(log, "constants")
    /\ IF m # NULL
          THEN /\ \E ok \in BOOLEAN :
                     /\ poppler' = IF ok THEN py_poppler_add_constants(poppler, "POPPLER")
                                         ELSE poppler
                     /\ err' = (err \/ ~ok)
                     /\ failed' = IF ok THEN failed ELSE failed \cup {"constants"}
               /\ pc' = "version"
          ELSE \E o \in UBOutcomes :
                  /\ err' = TRUE
                  /\ failed' = failed \cup {"constants"}
                  /\ pc' = IF o = "crash" THEN "crashed" ELSE "version"
                  /\ UNCHANGED poppler
    /\ UNCHANGED <<Pycairo_CAPI, m, d, versions, capiWrites>>

\* Line 51: py_poppler_add_constants(m, "POPPLER_").
AddConstants ==
    /\ pc = "constants"
    /\ log' = Append(log, "constants")
    /\ IF m # NULL
          THEN /\ \E ok \in BOOLEAN :
                     /\ poppler' = IF ok THEN py_poppler_add_constants(poppler, "POPPLER_")
                                         ELSE poppler
                     /\ err' = (err \/ ~ok)
                     /\ failed' = IF ok THEN failed ELSE failed \cup {"constants"}
               /\ pc' = "version"
          ELSE \E o \in UBOutcomes :
                  /\ err' = TRUE
                  /\ failed' = failed \cup {"constants"}
                  /\ pc' = IF o = "crash" THEN "crashed" ELSE "version"
                  /\ UNCHANGED poppler
    /\ UNCHANGED <<Pycairo_CAPI, m, d, versions, capiWrites>>

\* Variant: the minor and major version numbers are passed in swapped order.
AddVersion_Swapped ==
    /\ pc = "version"
    /\ log' = Append(log, "version")
    /\ IF m # NULL
          THEN /\ \E ok \in BOOLEAN :
                     /\ poppler' =
                          IF ok THEN PyModule_AddObject(poppler, "pypoppler_version",
                                        Py_BuildValue(<<"i", "i", "i">>,
                                                      PYPOPPLER_MINOR_VERSION,
                                                      PYPOPPLER_MAJOR_VERSION,
                                                      PYPOPPLER_MICRO_VERSION))
                                ELSE poppler
                     /\ err' = (err \/ ~ok)
                     /\ failed' = IF ok THEN failed ELSE failed \cup {"version"}
               /\ pc' = "errcheck"
          ELSE \E o \in UBOutcomes :
                  /\ err' = TRUE
                  /\ failed' = failed \cup {"version"}
                  /\ pc' = IF o = "crash" THEN "crashed" ELSE "errcheck"
                  /\ UNCHANGED poppler
    /\ UNCHANGED <<Pycairo_CAPI, m, d, versions, capiWrites>>

\* Lines 53-57: PyModule_AddObject(m, "pypoppler_version", Py_BuildValue("iii", ...)).
\* Either Py_BuildValue or PyModule_AddObject may fail; both leave an error
\* pending and the attribute absent.
AddVersion ==
    /\ pc = "version"
    /\ log' = Append(log, "version")
    /\ IF m # NULL
          THEN /\ \E ok \in BOOLEAN :
                     /\ poppler' =
                          IF ok THEN PyModule_AddObject(poppler, "pypoppler_version",
                                        Py_BuildValue(<<"i", "i", "i">>,
                                                      PYPOPPLER_MAJOR_VERSION,
                                                      PYPOPPLER_MINOR_VERSION,
                                                      PYPOPPLER_MICRO_VERSION))
                                ELSE poppler
                     /\ err' = (err \/ ~ok)
                     /\ failed' = IF ok THEN failed ELSE failed \cup {"version"}
               /\ pc' = "errcheck"
          ELSE \E o \in UBOutcomes :
                  /\ err' = TRUE
                  /\ failed' = failed \cup {"version"}
                  /\ pc' = IF o = "crash" THEN "crashed" ELSE "errcheck"
                  /\ UNCHANGED poppler
    /\ UNCHANGED <<Pycairo_CAPI, m, d, versions, capiWrites>>

\* Variant: the pending error is left for the caller instead of calling
\* Py_FatalError.
ErrCheck_Propagate ==
    /\ pc = "errcheck"
    /\ log' = Append(log, "errcheck")
    /\ pc' = "returned"
    /\ UNCHANGED <<Pycairo_CAPI, m, d, err, poppler, versions, failed, capiWrites>>

\* Lines 59-62: if (PyErr_Occurred ()) Py_FatalError (...); then return.
ErrCheck ==
    /\ pc = "errcheck"
    /\ log' = Append(log, "errcheck")
    /\ pc' = IF err THEN "fatal" ELSE "returned"
    /\ UNCHANGED <<Pycairo_CAPI, m, d, err, poppler, versions, failed, capiWrites>>

Next ==
    \/ ImportCairo
    \/ InitPygobject
    \/ InitModule
    \/ GetDict
    \/ RegisterClasses
    \/ AddConstants
    \/ AddVersion
    \/ ErrCheck

Spec == Init /\ [][Next]_vars

(***************************************************************************)
(* Properties                                                              *)
(***************************************************************************)

InLog(s) == \E i \in 1..Len(log) : log[i] = s

IsPrefix(s, t) ==
    /\ Len(s) <= Len(t)
    /\ \A i \in 1..Len(s) : s[i] = t[i]

\* The number of attributes named n that were added to the module.
AttrCount(n) == Cardinality({i \in 1..Len(poppler.attrs) : poppler.attrs[i].name = n})

\* The module exists as "poppler" with the method table, and each of the three
\* registrations has been performed exactly once on it.
ModuleFullyRegistered ==
    /\ poppler.exists
    /\ poppler.name = "poppler"
    /\ poppler.methods = "py_poppler_functions"
    /\ m = "poppler"
    /\ d = PyModule_GetDict(m)
    /\ poppler.classes = 1
    /\ poppler.constants = <<"POPPLER_">>
    /\ Len(poppler.attrs) = 1
    /\ AttrCount("pypoppler_version") = 1

\* What the successful steps have put into the module is still there.
RegistrationsKept ==
    poppler.exists =>
        /\ poppler.classes = (IF InLog("classes") /\ "classes" \notin failed THEN 1 ELSE 0)
        /\ Len(poppler.constants) = (IF InLog("constants") /\ "constants" \notin failed THEN 1 ELSE 0)
        /\ Len(poppler.attrs) = (IF InLog("version") /\ "version" \notin failed THEN 1 ELSE 0)

NoStepRepeated ==
    \A i, j \in 1..Len(log) : log[i] = log[j] => i = j

\* C1 as stated: an error that is pending once the registration steps have run
\* is propagated to the caller, i.e. initpoppler returns with it pending.
C1_ErrorPropagatedToCaller ==
    (InLog("errcheck") /\ err) => pc = "returned"

\* C1 amended: an error that is pending once the registration steps have run
\* makes initpoppler call Py_FatalError, which ends the process instead of
\* returning to the caller; no step is retried and nothing a successful step
\* registered is removed.
C1_ErrorIsFatal ==
    /\ (InLog("errcheck") /\ err) => pc = "fatal"
    /\ pc = "fatal" => (InLog("errcheck") /\ err)
    /\ NoStepRepeated
    /\ RegistrationsKept

C1_Witness ==
    /\ pc = "fatal"
    /\ poppler.exists
    /\ poppler.classes = 1
    /\ "constants" \in failed

\* C2 as stated: whenever initpoppler returns to its caller, the module
\* "poppler" exists with the method table and each registration has been
\* performed exactly once on it.
C2_ReturnImpliesRegistered ==
    pc = "returned" => ModuleFullyRegistered

\* C2 amended: whenever initpoppler returns to its caller with no Python error
\* pending, the module "poppler" exists with the method table and classes,
\* constants (prefix "POPPLER_") and "pypoppler_version" have each been
\* registered exactly once on it.
C2_CleanReturnImpliesRegistered ==
    (pc = "returned" /\ ~err) => ModuleFullyRegistered

C2_Witness ==
    pc = "returned" /\ ~err /\ InLog("errcheck")

\* C3: the value added under "pypoppler_version" is a tuple of exactly three
\* integers in the order (major, minor, micro), and it is added to the module
\* object that received the classes and the constants.
C3_VersionTuple ==
    \A i \in 1..Len(poppler.attrs) :
        poppler.attrs[i].name = "pypoppler_version" =>
            /\ Len(poppler.attrs[i].value) = 3
            /\ \A k \in 1..3 : poppler.attrs[i].value[k] \in Nat
            /\ poppler.attrs[i].value[1] = PYPOPPLER_MAJOR_VERSION
            /\ poppler.attrs[i].value[2] = PYPOPPLER_MINOR_VERSION
            /\ poppler.attrs[i].value[3] = PYPOPPLER_MICRO_VERSION
            /\ m = poppler.name
            /\ d = PyModule_GetDict(m)

C3_Witness ==
    /\ AttrCount("pypoppler_version") = 1
    /\ poppler.classes = 1
    /\ poppler.constants = <<"POPPLER_">>
    /\ PYPOPPLER_MAJOR_VERSION # PYPOPPLER_MINOR_VERSION
    /\ PYPOPPLER_MINOR_VERSION # PYPOPPLER_MICRO_VERSION

\* C4: the steps are always invoked in the one fixed order (cairo import,
\* pygobject initialization, module creation, class registration, constant
\* export, version attribute); no class is registered before the cairo import
\* and the pygobject initialization have happened; Pycairo_CAPI is assigned by
\* the first step only.
C4_FixedOrder ==
    /\ IsPrefix(log, FixedOrder)
    /\ InLog("classes") =>
          /\ InLog("cairo")
          /\ InLog("pygobject")
          /\ "pygobject" \notin failed
    /\ poppler.classes > 0 => (capiWrites = 1 /\ InLog("pygobject"))
    /\ capiWrites = (IF InLog("cairo") THEN 1 ELSE 0)
    /\ Pycairo_CAPI # NULL => (InLog("cairo") /\ "cairo" \notin failed)

C4_Witness ==
    /\ log = FixedOrder
    /\ poppler.classes = 1
    /\ Pycairo_CAPI = "CAPI"

\* C5 as stated: initpoppler never returns to its caller while a Python error
\* is pending.
C5_NeverReturnsWithError ==
    pc = "returned" => ~err

\* C5 amended: initpoppler returns to its caller with a Python error pending
\* exactly when init_pygobject failed (its early return, before the module is
\* created); for every other combination of failures either no error is
\* pending at return or the process has ended (Py_FatalError, or a crash on
\* the NULL module).
C5_ReturnsWithErrorOnlyFromPygobject ==
    /\ (pc = "returned" /\ err) =>
          /\ "pygobject" \in failed
          /\ log = <<"cairo", "pygobject">>
          /\ ~poppler.exists
    /\ (pc \in Terminal /\ "pygobject" \in failed) => (pc = "returned" /\ err)
    /\ (pc \in Terminal /\ failed # {} /\ "pygobject" \notin failed) =>
          pc \in {"fatal", "crashed"}

C5_Witness ==
    /\ pc = "fatal"
    /\ "pygobject" \notin failed
    /\ "version" \in failed

\* C6 as stated: every call performs the pending-error check exactly once, as
\* its last step, and no failure of an earlier step skips a later step.
C6_CheckAlwaysRunsNoStepSkipped ==
    pc \in Terminal => log = FixedOrder

\* C6 amended: the pending-error check is performed at most once per call and
\* only as the last step.  A failure of the pycairo import, the class
\* registration, the constant export or the version export skips no later
\* step.  The check and the steps before it are skipped only when
\* init_pygobject fails (initpoppler returns at once) or when the process
\* crashes on the NULL module after a failed module creation; the dictionary
\* lookup is invoked whether or not module creation succeeded.
C6_StepsSkippedOnlyByPygobjectOrCrash ==
    /\ NoStepRepeated
    /\ InLog("errcheck") => (log = FixedOrder /\ pc \in {"fatal", "returned"})
    /\ (pc \in Terminal /\ pc # "crashed" /\ "pygobject" \notin failed) =>
          log = FixedOrder
    /\ (pc \in Terminal /\ "pygobject" \in failed) => log = <<"cairo", "pygobject">>
    /\ pc = "crashed" => (m = NULL /\ "initmodule" \in failed /\ InLog("getdict"))
    /\ (pc \in Terminal /\ "pygobject" \notin failed) => InLog("getdict")

C6_Witness ==
    /\ pc = "fatal"
    /\ log = FixedOrder
    /\ "initmodule" \in failed
    /\ "cairo" \in failed

====
